---- MODULE Spec2Model ----
(***************************************************************************)
(* A state-machine model of src/script.js, the interactive layer of the    *)
(* Vienna Kitchen & Bakehouse page: script evaluation (listener            *)
(* registration in source order), the navigation handlers, the viewport    *)
(* observer callback, the reduced-motion guard and the debounced resize    *)
(* handler.                                                                *)
(*                                                                         *)
(* Strings the script slices or compares (hrefs, ids) are sequences of     *)
(* one-character strings; CSS values are sequences of tokens.              *)
(***************************************************************************)
EXTENDS Integers, Sequences, FiniteSets, TLC

\* ------------------------------------------------------------------ bounds
NumElems == 2        \* elements 1..NumElems may be menu cards / gallery items
MaxClicks == 3       \* longest run of consecutive hamburger clicks
MaxTriggers == 2     \* entrance animations counted per element
MaxResizes == 3      \* resize events per behaviour
MaxTime == 1000      \* clock horizon
TickStep == 125      \* clock granularity
MaxBackground == 2   \* intersection, hover and resize events interleaved with navigation

\* ------------------------------------------------------- program constants
ScrollThreshold == 50     \* script.js:79
LookAhead == 100          \* script.js:261
LogoScrollTop == 0        \* script.js:59
Delay == 250              \* script.js:326

\* ------------------------------------------------------------ the document
Hash == "#"
MenuId == <<"m", "e", "n", "u">>
AboutId == <<"a", "b", "o", "u", "t">>
GoneId == <<"g", "o", "n", "e">>

\* document.querySelectorAll('.nav-link'): the hrefs of the navigation links,
\* in document order.  Link 3 is a bare '#', link 4 names no element.
navLinks == << <<Hash>> \o MenuId, <<Hash>> \o AboutId, <<Hash>>, <<Hash>> \o GoneId >>

LinkIds == DOMAIN navLinks

\* Page layouts: navbar.offsetHeight and the <section> elements in document
\* order with their id and offsetTop.  In LayoutB offsetTop is not monotone
\* in document order (offsetTop is relative to the offsetParent) and no
\* section is reached at the top of the page.
LayoutA == [navbarHeight |-> 80,
            sections |-> << [id |-> AboutId, top |-> 100], [id |-> MenuId, top |-> 480] >>]

LayoutB == [navbarHeight |-> 60,
            sections |-> << [id |-> MenuId, top |-> 400], [id |-> AboutId, top |-> 250] >>]

Layouts == {LayoutA, LayoutB}

\* Values window.scrollY takes in the model: both sides of the 50 threshold
\* and of the sections' activation points.
ScrollOffsets == {0, 50, 51, 300}

\* Elements of the document: 0 is an element that is neither a menu card nor
\* a gallery item; 1..NumElems carry one or both of the two classes.
Elems == 0..NumElems

DocOrder == [i \in 1..(NumElems + 1) |-> i - 1]

TagChoices == {{"menu-card"}, {"gallery-item"}, {"menu-card", "gallery-item"}}

DefaultTags == [e \in Elems |-> IF e = 0 THEN {} ELSE IF e = 2 THEN {"gallery-item"} ELSE {"menu-card"}]

ElemNames == {"navbar", "hamburger", "navMenu", "logo", "ctaButton"}

AllPresent == [n \in ElemNames |-> TRUE]

\* CSS values
NoValue == <<>>
NoneImportant == <<"none", "!important">>
FadeIn == <<"fadeIn", "0.8s", "ease-out", "forwards">>
EmptyStyle == [animation |-> NoValue, animationDelay |-> NoValue, transition |-> NoValue]

VARIABLES
    \* the document, fixed once the page is parsed
    present,          \* which of the cached elements exist (lines 17-22)
    sections,         \* the <section> elements: [id, top] in document order
    navbarHeight,     \* navbar.offsetHeight
    elemTags,         \* class tags of each element of Elems
    \* script life cycle
    phase,            \* "parsed" before the script runs, "evaluated" after
    installed,        \* the listeners / features the evaluation registered
    lastEvent,        \* <<kind, argument>> of the event handled last
    lastErrors,       \* handlers that raised a TypeError during that event
    \* navigation
    hamburgerActive,  \* hamburger has class 'active'
    navMenuActive,    \* navMenu has class 'active'
    navbarScrolled,   \* navbar has class 'scrolled'
    linkActive,       \* per nav link: has class 'active'
    scrollY,          \* window.scrollY = pageYOffset
    scrollRequest,    \* window.scrollTo call made by the last event: <<>> or <<top>>
    runLen,           \* hamburger clicks since the last other event
    runStart,         \* <<hamburgerActive, navMenuActive>> when that run began
    \* viewport animation and accessibility
    observed,         \* targets the IntersectionObserver watches
    visible,          \* per element: currently intersecting
    classFadeInUp,    \* per element: has class 'fade-in-up'
    style,            \* per element: inline style
    triggerCount,     \* per element: times the entrance animation was triggered
    reentered,        \* per element: came back into view after it was animated
    reducedMotion,    \* the prefers-reduced-motion media query matches now
    reducedAtEval,    \* ... and what it was when the script was evaluated
    docScrollBehavior,\* document.documentElement.style.scrollBehavior
    \* debounced resize
    now,              \* the clock
    timers,           \* pending timeouts: set of [id, due]
    timeoutId,        \* debounce closure's timeoutId (0: undefined)
    nextTimerId,      \* id the next setTimeout returns
    lastResizeAt,     \* time of the last resize event (-1: none)
    callsSinceResize, \* invocations of the wrapped handler since that event
    lastCallAt,       \* time of the last invocation (-1: none)
    burstLen,         \* resize events since the last invocation
    burstTight,       \* consecutive events of that burst were < Delay apart
    \* the rest of the page
    notified,         \* the observer has delivered its initial entries
    hovered,          \* the element under the pointer (0: none of 1..NumElems)
    cursor,           \* per element: inline style.cursor
    transform,        \* per element: inline style.transform
    docState,         \* "loading", then "interactive" (DOMContentLoaded), then "complete" (load)
    heroOpacity,      \* .hero-content inline style.opacity
    mapAvailable,     \* Leaflet is loaded and #map-container exists
    mapInitCount,     \* runs of initializeMap
    popupOpen,        \* the marker's popup is open
    eventsLeft        \* background events the interleaved specification may still take

domVars == <<present, sections, navbarHeight, elemTags>>
lifeVars == <<phase, installed, lastEvent, lastErrors>>
navVars == <<hamburgerActive, navMenuActive, navbarScrolled, linkActive, scrollY,
             scrollRequest, runLen, runStart>>
animVars == <<observed, visible, classFadeInUp, style, triggerCount, reentered, reducedMotion,
              reducedAtEval, docScrollBehavior>>
timeVars == <<now, timers, timeoutId, nextTimerId, lastResizeAt, callsSinceResize,
              lastCallAt, burstLen, burstTight>>
hoverVars == <<hovered, cursor, transform>>
docVars == <<docState, heroOpacity, mapAvailable, mapInitCount, popupOpen>>
pageVars == <<notified, hoverVars, docVars>>
vars == <<domVars, lifeVars, navVars, animVars, timeVars, pageVars, eventsLeft>>


\* ---------------------------------------------------------------- helpers
Range(s) == {s[i] : i \in DOMAIN s}

\* String.prototype.substring(1): the string without its first character.
Substring1(s) == SubSeq(s, 2, Len(s))

\* Array.prototype.indexOf: zero-based index of the first occurrence, or -1.
IndexOf(seq, x) ==
    IF \E i \in DOMAIN seq : seq[i] = x
    THEN (CHOOSE i \in DOMAIN seq : seq[i] = x /\ \A j \in 1..(i - 1) : seq[j] # x) - 1
    ELSE -1

\* document.getElementById over the sections: position of the first section
\* with that id, 0 for null (the empty string names no element).
GetElementById(secs, id) ==
    IF id # <<>> /\ \E i \in DOMAIN secs : secs[i].id = id
    THEN CHOOSE i \in DOMAIN secs : secs[i].id = id /\ \A j \in 1..(i - 1) : secs[j].id # id
    ELSE 0

\* document.querySelectorAll('.menu-card') / ('.gallery-item'), document order.
WithTag(tags, t) ==
    LET Has(e) == t \in tags[e] IN SelectSeq(DocOrder, Has)

MenuCards(tags) == WithTag(tags, "menu-card")

GalleryItems(tags) == WithTag(tags, "gallery-item")

\* ------------------------------------------------------- script evaluation
\* Features registered before the CTA listener (line 121): they are guarded
\* by presence checks or need no element at registration time.
EarlyFeatures(p) ==
    (IF p.hamburger /\ p.navMenu THEN {"hamburgerToggle", "linkCloseMenu"} ELSE {})
        \cup (IF p.logo THEN {"logoClick"} ELSE {})
        \cup {"navbarScroll", "linkSmoothScroll"}

\* Features registered from line 121 on, in source order.
LateFeatures ==
    {"ctaClick", "observer", "cardHover", "galleryHover", "ctaMouseDown", "activeLink",
     "load", "reducedMotionGuard", "resize", "mapInit"}

\* Mutant: a missing CTA button does not end the evaluation.
InstalledBy_NoThrow(p) == EarlyFeatures(p) \cup LateFeatures

\* ctaButton.addEventListener on a null ctaButton throws and ends the
\* evaluation: nothing after line 121 is registered.
InstalledBy(p) ==
    EarlyFeatures(p) \cup (IF p.ctaButton THEN LateFeatures ELSE {})

\* observer.observe over menuCards, then galleryItems (observe is idempotent).
ObservedTargets(tags) == Range(MenuCards(tags)) \cup Range(GalleryItems(tags))

\* CSSOM: assigning to a style property parses the value for that property;
\* a value holding '!important' does not parse and the assignment is ignored.
CssValueValid(val) == \A i \in DOMAIN val : val[i] # "!important"

\* element.style.animation = val.  'animation' is a shorthand: a value that
\* parses replaces every animation-* longhand, animation-delay included
\* (0s when the value names no delay, as in the two values the script uses).
SetStyleAnimation(st, val) ==
    IF CssValueValid(val)
    THEN [st EXCEPT !.animation = val, !.animationDelay = <<0>>]
    ELSE st

\* element.style.transition = val
SetStyleTransition(st, val) ==
    IF CssValueValid(val) THEN [st EXCEPT !.transition = val] ELSE st

\* element.style.animationDelay = `${tenths * 0.1}s`, kept in tenths of a second.
SetStyleAnimationDelay(st, tenths) == [st EXCEPT !.animationDelay = <<tenths>>]

\* Lines 294-302 for one element.
ReducedMotionStyle(st) ==
    SetStyleTransition(SetStyleAnimation(st, NoneImportant), NoneImportant)

EvaluateScript ==
    /\ phase = "parsed"
    /\ phase' = "evaluated"
    /\ installed' = InstalledBy(present)
    /\ lastEvent' = <<"evaluate", 0>>
    /\ lastErrors' = IF present.ctaButton THEN {} ELSE {"evaluate"}
    /\ observed' = IF "observer" \in installed' THEN ObservedTargets(elemTags) ELSE {}
    /\ reducedAtEval' = reducedMotion
    /\ LET guard == "reducedMotionGuard" \in installed' /\ reducedMotion IN
        /\ docScrollBehavior' = IF guard THEN "auto" ELSE docScrollBehavior
        /\ style' = IF guard THEN [e \in Elems |-> ReducedMotionStyle(style[e])] ELSE style
    /\ UNCHANGED <<domVars, pageVars, eventsLeft, navVars, timeVars>>
    /\ UNCHANGED <<visible, classFadeInUp, triggerCount, reentered, reducedMotion>>

\* -------------------------------------------------------------- navigation
\* Mutant: the menu is opened instead of toggled.
HamburgerToggle_AddMenu(ha, ma) == <<~ha, TRUE>>

\* Mutant: only the hamburger is toggled.
HamburgerToggle_OnlyHamburger(ha, ma) == <<~ha, ma>>

\* Lines 36-37: classList.toggle('active') on both elements.
HamburgerToggle(ha, ma) == <<~ha, ~ma>>

\* Mutant: only the nav menu is closed.
CloseMenu_MenuOnly(ha, ma) == <<ha, FALSE>>

\* Lines 43-44 and 64-65: classList.remove('active') on both elements.
CloseMenu(ha, ma) == <<FALSE, FALSE>>

\* Mutant: the threshold itself counts as scrolled.
ScrolledClass_AtThreshold(y) == y >= ScrollThreshold

\* Lines 79-83.
ScrolledClass(y) == y > ScrollThreshold

\* Mutant: the navbar height is not subtracted.
TargetPosition_NoNavbar(top, h) == top

\* Lines 104 and 124.
TargetPosition(top, h) == top - h

\* Lines 251-264: the id of the last section, in document order, with
\* pageYOffset >= offsetTop - navbar.offsetHeight - 100; '' when there is none.
RECURSIVE CurrentFrom(_, _, _, _, _)
CurrentFrom(secs, i, y, h, cur) ==
    IF i > Len(secs)
    THEN cur
    ELSE CurrentFrom(secs, i + 1, y, h,
                     IF y >= secs[i].top - h - LookAhead THEN secs[i].id ELSE cur)

CurrentSection(secs, y, h) == CurrentFrom(secs, 1, y, h, <<>>)

\* Mutant: 'active' is never removed.
UpdateLinkClass_NoRemove(old, href, cur) ==
    IF Substring1(href) = cur THEN TRUE ELSE old

\* Lines 268-271 for one link: remove 'active', add it back on a match.
UpdateLinkClass(old, href, cur) ==
    LET removed == FALSE IN
    IF Substring1(href) = cur THEN TRUE ELSE removed

\* Mutant: a missing navbar counts as a navbar of height 0.
SmoothScrollTo_NavbarGuarded(secs, href, navbarPresent, h) ==
    LET t == GetElementById(secs, Substring1(href)) IN
    IF t = 0 THEN [request |-> <<>>, error |-> FALSE]
    ELSE [request |-> <<TargetPosition(secs[t].top, IF navbarPresent THEN h ELSE 0)>>,
          error |-> FALSE]

\* Mutant: the target is dereferenced without the check of line 102.
SmoothScrollTo_NoNullCheck(secs, href, navbarPresent, h) ==
    LET t == GetElementById(secs, Substring1(href)) IN
    IF t = 0 \/ ~navbarPresent THEN [request |-> <<>>, error |-> TRUE]
    ELSE [request |-> <<TargetPosition(secs[t].top, h)>>, error |-> FALSE]

\* Lines 98-111: the scroll a link click requests, and whether reading
\* navbar.offsetHeight of a missing navbar throws.
SmoothScrollTo(secs, href, navbarPresent, h) ==
    LET t == GetElementById(secs, Substring1(href)) IN
    IF t = 0 THEN [request |-> <<>>, error |-> FALSE]
    ELSE IF ~navbarPresent THEN [request |-> <<>>, error |-> TRUE]
    ELSE [request |-> <<TargetPosition(secs[t].top, h)>>, error |-> FALSE]

HamburgerClick ==
    /\ phase = "evaluated"
    /\ present.hamburger
    /\ runLen < MaxClicks
    /\ LET m == IF "hamburgerToggle" \in installed
                THEN HamburgerToggle(hamburgerActive, navMenuActive)
                ELSE <<hamburgerActive, navMenuActive>> IN
        /\ hamburgerActive' = m[1]
        /\ navMenuActive' = m[2]
    /\ runLen' = runLen + 1
    /\ scrollRequest' = <<>>
    /\ lastEvent' = <<"hamburger", 0>>
    /\ lastErrors' = {}
    /\ UNCHANGED <<navbarScrolled, linkActive, scrollY, runStart>>
    /\ UNCHANGED <<domVars, pageVars, eventsLeft, animVars, timeVars, phase, installed>>

LinkClick(i) ==
    /\ phase = "evaluated"
    /\ LET m == IF "linkCloseMenu" \in installed
                THEN CloseMenu(hamburgerActive, navMenuActive)
                ELSE <<hamburgerActive, navMenuActive>>
           r == SmoothScrollTo(sections, navLinks[i], present.navbar, navbarHeight) IN
        /\ hamburgerActive' = m[1]
        /\ navMenuActive' = m[2]
        /\ runStart' = m
        /\ scrollRequest' = r.request
        /\ lastErrors' = IF r.error THEN {"linkSmoothScroll"} ELSE {}
    /\ runLen' = 0
    /\ lastEvent' = <<"link", i>>
    /\ UNCHANGED <<navbarScrolled, linkActive, scrollY>>
    /\ UNCHANGED <<domVars, pageVars, eventsLeft, animVars, timeVars, phase, installed>>

LogoClick ==
    /\ phase = "evaluated"
    /\ present.logo
    /\ LET m == IF present.hamburger /\ present.navMenu
                THEN CloseMenu(hamburgerActive, navMenuActive)
                ELSE <<hamburgerActive, navMenuActive>> IN
        /\ hamburgerActive' = m[1]
        /\ navMenuActive' = m[2]
        /\ runStart' = m
    /\ scrollRequest' = <<LogoScrollTop>>
    /\ runLen' = 0
    /\ lastEvent' = <<"logo", 0>>
    /\ lastErrors' = {}
    /\ UNCHANGED <<navbarScrolled, linkActive, scrollY>>
    /\ UNCHANGED <<domVars, pageVars, eventsLeft, animVars, timeVars, phase, installed>>

\* One scroll event runs both scroll listeners (lines 76-84 and 250-273); an
\* exception in one listener does not keep the other from running.
Scroll(y) ==
    /\ phase = "evaluated"
    /\ scrollY' = y
    /\ navbarScrolled' = IF present.navbar THEN ScrolledClass(y) ELSE navbarScrolled
    /\ LET runs == "activeLink" \in installed
           throws == runs /\ ~present.navbar /\ sections # <<>>
           cur == CurrentSection(sections, y, navbarHeight) IN
        /\ linkActive' = IF runs /\ ~throws
                         THEN [i \in LinkIds |-> UpdateLinkClass(linkActive[i], navLinks[i], cur)]
                         ELSE linkActive
        /\ lastErrors' = (IF present.navbar THEN {} ELSE {"navbarScroll"})
                            \cup (IF throws THEN {"activeLink"} ELSE {})
    /\ scrollRequest' = <<>>
    /\ runLen' = 0
    /\ runStart' = <<hamburgerActive, navMenuActive>>
    /\ lastEvent' = <<"scroll", 0>>
    /\ UNCHANGED <<hamburgerActive, navMenuActive>>
    /\ UNCHANGED <<domVars, pageVars, eventsLeft, animVars, timeVars, phase, installed>>

\* Mutant: the CTA button scrolls to the top of the section, under the navbar.
CtaScrollTo_SectionTop(secs, navbarPresent, h) ==
    LET t == GetElementById(secs, MenuId) IN
    IF navbarPresent /\ t # 0
    THEN [request |-> <<secs[t].top>>, error |-> FALSE]
    ELSE [request |-> <<>>, error |-> TRUE]

\* Lines 122-129: the scroll a CTA click requests.  Neither navbar (line 123)
\* nor the section 'menu' (line 124) is checked before it is dereferenced.
CtaScrollTo(secs, navbarPresent, h) ==
    LET t == GetElementById(secs, MenuId) IN
    IF navbarPresent /\ t # 0
    THEN [request |-> <<TargetPosition(secs[t].top, h)>>, error |-> FALSE]
    ELSE [request |-> <<>>, error |-> TRUE]

\* Lines 121-130.
CtaClick ==
    /\ phase = "evaluated"
    /\ "ctaClick" \in installed
    /\ LET r == CtaScrollTo(sections, present.navbar, navbarHeight) IN
        /\ scrollRequest' = r.request
        /\ lastErrors' = IF r.error THEN {"ctaClick"} ELSE {}
    /\ runLen' = 0
    /\ runStart' = <<hamburgerActive, navMenuActive>>
    /\ lastEvent' = <<"cta", 0>>
    /\ UNCHANGED <<hamburgerActive, navMenuActive, navbarScrolled, linkActive, scrollY>>
    /\ UNCHANGED <<domVars, pageVars, eventsLeft, animVars, timeVars, phase, installed>>

\* ------------------------------------------------------ viewport animation
\* Mutant: the target stays under observation.
Unobserve_Keep(obs, t) == obs

\* Line 169: observer.unobserve(entry.target).
Unobserve(obs, t) == obs \ {t}

\* Line 156: Array.from(menuCards).indexOf(entry.target).
StaggerIndex(tags, e) == IndexOf(MenuCards(tags), e)

\* Lines 155-166 for one intersecting target: its 'fade-in-up' class and
\* inline style afterwards.
TriggerEntrance(tags, e, st) ==
    LET staggered == IF "menu-card" \in tags[e]
                     THEN SetStyleAnimationDelay(st, StaggerIndex(tags, e))
                     ELSE st
        added == TRUE IN
    IF "gallery-item" \in tags[e]
    THEN [fadeInUp |-> FALSE, style |-> SetStyleAnimation(staggered, FadeIn)]
    ELSE [fadeInUp |-> added, style |-> staggered]

\* Mutant: an entry is handled whether it intersects or not.
HandleEntry_AnyEntry(tags, a, entry) ==
    LET t == entry.target
        r == TriggerEntrance(tags, t, a.style[t]) IN
    [observed |-> Unobserve(a.observed, t),
     fadeInUp |-> [a.fadeInUp EXCEPT ![t] = r.fadeInUp],
     style |-> [a.style EXCEPT ![t] = r.style],
     count |-> [a.count EXCEPT ![t] = @ + 1]]

\* Lines 151-171 for one entry; a is [observed, fadeInUp, style, count].
HandleEntry(tags, a, entry) ==
    IF entry.isIntersecting
    THEN LET t == entry.target
             r == TriggerEntrance(tags, t, a.style[t]) IN
         [observed |-> Unobserve(a.observed, t),
          fadeInUp |-> [a.fadeInUp EXCEPT ![t] = r.fadeInUp],
          style |-> [a.style EXCEPT ![t] = r.style],
          count |-> [a.count EXCEPT ![t] = @ + 1]]
    ELSE a

\* Lines 150-172: entries.forEach.
RECURSIVE ObserverCallback(_, _, _, _)
ObserverCallback(tags, entries, i, a) ==
    IF i > Len(entries)
    THEN a
    ELSE ObserverCallback(tags, entries, i + 1, HandleEntry(tags, a, entries[i]))

\* The entries the observer queues when the elements of F cross the
\* threshold: one per watched target of F, with its new isIntersecting.
EntriesFor(F, obs, vis) ==
    LET Crossed(e) == e \in F /\ e \in obs
        targets == SelectSeq(DocOrder, Crossed) IN
    [i \in DOMAIN targets |-> [target |-> targets[i], isIntersecting |-> ~vis[targets[i]]]]

\* The elements of F scroll across the observer's threshold (into view if
\* they were out, out if they were in); the observer calls back with the
\* entries of the targets it still watches.
IntersectionEvent(F) ==
    /\ phase = "evaluated"
    /\ notified \/ "observer" \notin installed
    /\ \A e \in Elems : triggerCount[e] < MaxTriggers
    /\ visible' = [e \in Elems |-> IF e \in F THEN ~visible[e] ELSE visible[e]]
    /\ reentered' = [e \in Elems |->
                        reentered[e] \/ (e \in F /\ ~visible[e] /\ triggerCount[e] > 0)]
    /\ LET entries == EntriesFor(F, observed, visible)
           a == ObserverCallback(elemTags, entries, 1,
                                 [observed |-> observed, fadeInUp |-> classFadeInUp,
                                  style |-> style, count |-> triggerCount]) IN
        /\ observed' = a.observed
        /\ classFadeInUp' = a.fadeInUp
        /\ style' = a.style
        /\ triggerCount' = a.count
    /\ lastEvent' = <<"intersection", 0>>
    /\ lastErrors' = {}
    /\ UNCHANGED <<reducedMotion, reducedAtEval, docScrollBehavior>>
    /\ UNCHANGED <<domVars, pageVars, navVars, timeVars, phase, installed>>

IntersectionChange(F) == IntersectionEvent(F) /\ UNCHANGED eventsLeft

\* The targets in the order lines 177-183 hand them to observer.observe.
ObserveOrder(tags) ==
    LET NotCard(e) == "menu-card" \notin tags[e] IN
    MenuCards(tags) \o SelectSeq(GalleryItems(tags), NotCard)

\* The entries of the observer's first callback: one per target, with the
\* target's state at that moment, intersecting or not.
FirstEntries(tags, vis) ==
    LET targets == ObserveOrder(tags) IN
    [i \in DOMAIN targets |-> [target |-> targets[i], isIntersecting |-> vis[targets[i]]]]

\* An IntersectionObserver reports every target once after observe(), before
\* it reports any change.
FirstObservation ==
    /\ phase = "evaluated"
    /\ "observer" \in installed
    /\ ~notified
    /\ notified' = TRUE
    /\ LET a == ObserverCallback(elemTags, FirstEntries(elemTags, visible), 1,
                                 [observed |-> observed, fadeInUp |-> classFadeInUp,
                                  style |-> style, count |-> triggerCount]) IN
        /\ observed' = a.observed
        /\ classFadeInUp' = a.fadeInUp
        /\ style' = a.style
        /\ triggerCount' = a.count
    /\ lastEvent' = <<"observation", 0>>
    /\ lastErrors' = {}
    /\ UNCHANGED <<visible, reentered, reducedMotion, reducedAtEval, docScrollBehavior>>
    /\ UNCHANGED <<domVars, hoverVars, docVars, eventsLeft, navVars, timeVars, phase, installed>>

\* The user changes the platform's reduced-motion setting; the script has
\* registered no listener on the media query (line 294 reads .matches once).
PreferenceChange ==
    /\ phase = "evaluated"
    /\ reducedMotion' = ~reducedMotion
    /\ lastEvent' = <<"preference", 0>>
    /\ lastErrors' = {}
    /\ UNCHANGED <<observed, visible, classFadeInUp, style, triggerCount, reentered,
                   reducedAtEval, docScrollBehavior>>
    /\ UNCHANGED <<domVars, pageVars, eventsLeft, navVars, timeVars, phase, installed>>

\* --------------------------------------------------------- debounced resize
\* Mutant: the pending timeout is left in place.
ClearTimeout_Noop(ts, id) == ts

\* clearTimeout(id): no effect when id is undefined or has already fired.
ClearTimeout(ts, id) == {t \in ts : t.id # id}

\* setTimeout(callback, delay) called at time t, returning id.
SetTimeout(ts, id, t, delay) == ts \cup {[id |-> id, due |-> t + delay]}

\* Lines 312-315: one call of the function debounce returns.
DebouncedCall(ts, tid, id, t, delay) ==
    [timers |-> SetTimeout(ClearTimeout(ts, tid), id, t, delay), timeoutId |-> id]

\* A resize event (lines 324-326).
ResizeEvent ==
    /\ phase = "evaluated"
    /\ now + Delay <= MaxTime
    /\ LET newBurst == burstLen = 0 \/ callsSinceResize > 0 IN
        /\ newBurst \/ burstLen < MaxResizes
        /\ burstLen' = IF newBurst THEN 1 ELSE burstLen + 1
        /\ burstTight' = IF newBurst THEN TRUE ELSE burstTight /\ now - lastResizeAt < Delay
    /\ IF "resize" \in installed
       THEN LET d == DebouncedCall(timers, timeoutId, nextTimerId, now, Delay) IN
            /\ timers' = d.timers
            /\ timeoutId' = d.timeoutId
            /\ nextTimerId' = nextTimerId + 1
       ELSE UNCHANGED <<timers, timeoutId, nextTimerId>>
    /\ lastResizeAt' = now
    /\ callsSinceResize' = 0
    /\ lastEvent' = <<"resize", 0>>
    /\ lastErrors' = {}
    /\ UNCHANGED <<now, lastCallAt>>
    /\ UNCHANGED <<domVars, pageVars, navVars, animVars, phase, installed>>

Resize == ResizeEvent /\ UNCHANGED eventsLeft

\* A timeout that is due runs (no earlier than its delay, possibly later):
\* line 314's callback applies the wrapped handler, whose body is empty.
TimerFire ==
    /\ \E t \in timers :
        /\ t.due <= now
        /\ timers' = timers \ {t}
    /\ callsSinceResize' = callsSinceResize + 1
    /\ lastCallAt' = now
    /\ lastEvent' = <<"timeout", 0>>
    /\ lastErrors' = {}
    /\ UNCHANGED <<now, timeoutId, nextTimerId, lastResizeAt, burstLen, burstTight>>
    /\ UNCHANGED <<domVars, pageVars, eventsLeft, navVars, animVars, phase, installed>>

\* Time passes.
Tick ==
    /\ now < MaxTime
    /\ now' = now + TickStep
    /\ UNCHANGED <<timers, timeoutId, nextTimerId, lastResizeAt, callsSinceResize,
                   lastCallAt, burstLen, burstTight>>
    /\ UNCHANGED <<domVars, pageVars, eventsLeft, lifeVars, navVars, animVars>>

\* ------------------------------------------------------- hover, load, map
\* Lines 194-196 and 212-214: mouseenter on a menu card sets the cursor, on a
\* gallery item the transform.
EnterStyle(feats, tags, e, cur, tr) ==
    [cursor |-> IF "cardHover" \in feats /\ "menu-card" \in tags[e] THEN "pointer" ELSE cur,
     transform |-> IF "galleryHover" \in feats /\ "gallery-item" \in tags[e]
                   THEN "scale(0.98)" ELSE tr]

\* Lines 198-200 and 217-219: mouseleave.
LeaveStyle(feats, tags, e, cur, tr) ==
    [cursor |-> IF "cardHover" \in feats /\ "menu-card" \in tags[e] THEN "default" ELSE cur,
     transform |-> IF "galleryHover" \in feats /\ "gallery-item" \in tags[e]
                   THEN "scale(1)" ELSE tr]

\* One more background event of the interleaved specification.
Spend ==
    /\ eventsLeft > 0
    /\ eventsLeft' = eventsLeft - 1

MouseEnter(e) ==
    /\ phase = "evaluated"
    /\ hovered = 0
    /\ Spend
    /\ hovered' = e
    /\ LET r == EnterStyle(installed, elemTags, e, cursor[e], transform[e]) IN
        /\ cursor' = [cursor EXCEPT ![e] = r.cursor]
        /\ transform' = [transform EXCEPT ![e] = r.transform]
    /\ lastEvent' = <<"mouseenter", e>>
    /\ lastErrors' = {}
    /\ UNCHANGED <<domVars, notified, docVars, navVars, animVars, timeVars, phase, installed>>

MouseLeave(e) ==
    /\ phase = "evaluated"
    /\ hovered = e
    /\ Spend
    /\ hovered' = 0
    /\ LET r == LeaveStyle(installed, elemTags, e, cursor[e], transform[e]) IN
        /\ cursor' = [cursor EXCEPT ![e] = r.cursor]
        /\ transform' = [transform EXCEPT ![e] = r.transform]
    /\ lastEvent' = <<"mouseleave", e>>
    /\ lastErrors' = {}
    /\ UNCHANGED <<domVars, notified, docVars, navVars, animVars, timeVars, phase, installed>>

BackgroundIntersection(F) == Spend /\ IntersectionEvent(F)

BackgroundResize == Spend /\ ResizeEvent

\* Mutant: the initializer also listens to the load event.
MapInitRuns_OnLoadToo(feats, event) == "mapInit" \in feats

\* Line 396: initializeMap is registered for DOMContentLoaded and for nothing else.
MapInitRuns(feats, event) == "mapInit" \in feats /\ event = "DOMContentLoaded"

\* Lines 334-393: one run of initializeMap.  L.map throws when Leaflet is
\* not loaded or the container is missing; otherwise line 392 opens the popup.
InitializeMap(avail, count, open) ==
    [count |-> count + 1, popupOpen |-> IF avail THEN TRUE ELSE open, error |-> ~avail]

\* Lines 280-287: the load listener shows the hero content.
LoadListener(feats, event, opacity) ==
    IF "load" \in feats /\ event = "load" THEN "1" ELSE opacity

\* The document dispatches event to the listeners registered for it.
Dispatch(event) ==
    /\ heroOpacity' = LoadListener(installed, event, heroOpacity)
    /\ IF MapInitRuns(installed, event)
       THEN LET m == InitializeMap(mapAvailable, mapInitCount, popupOpen) IN
            /\ mapInitCount' = m.count
            /\ popupOpen' = m.popupOpen
            /\ lastErrors' = IF m.error THEN {"mapInit"} ELSE {}
       ELSE /\ UNCHANGED <<mapInitCount, popupOpen>>
            /\ lastErrors' = {}
    /\ lastEvent' = <<event, 0>>
    /\ UNCHANGED <<mapAvailable, notified, hoverVars, eventsLeft>>
    /\ UNCHANGED <<domVars, navVars, animVars, timeVars, phase, installed>>

\* The document has been parsed; the script, evaluated while it was
\* parsed, has registered its listeners by then.
DomContentLoaded ==
    /\ phase = "evaluated"
    /\ docState = "loading"
    /\ docState' = "interactive"
    /\ Dispatch("DOMContentLoaded")

\* Every resource of the page has loaded.
Load ==
    /\ docState = "interactive"
    /\ docState' = "complete"
    /\ Dispatch("load")

\* ------------------------------------------------------------ initial states
\* A missing element carries no class.
InitDom(p, layout, tags) ==
    /\ present = p
    /\ sections = layout.sections
    /\ navbarHeight = layout.navbarHeight
    /\ elemTags = tags

InitLife ==
    /\ phase = "parsed"
    /\ installed = {}
    /\ lastEvent = <<"none", 0>>
    /\ lastErrors = {}

InitNavState ==
    /\ hamburgerActive \in (IF present.hamburger THEN BOOLEAN ELSE {FALSE})
    /\ navMenuActive \in (IF present.navMenu THEN BOOLEAN ELSE {FALSE})
    /\ navbarScrolled = FALSE
    /\ linkActive \in {[i \in LinkIds |-> FALSE], [i \in LinkIds |-> TRUE]}
    /\ scrollY = 0
    /\ scrollRequest = <<>>
    /\ runLen = 0
    /\ runStart = <<hamburgerActive, navMenuActive>>

InitAnimState(rm) ==
    /\ observed = {}
    /\ classFadeInUp = [e \in Elems |-> FALSE]
    /\ style = [e \in Elems |-> EmptyStyle]
    /\ triggerCount = [e \in Elems |-> 0]
    /\ reentered = [e \in Elems |-> FALSE]
    /\ reducedMotion = rm
    /\ reducedAtEval = FALSE
    /\ docScrollBehavior = ""

InitTimeState ==
    /\ now = 0
    /\ timers = {}
    /\ timeoutId = 0
    /\ nextTimerId = 1
    /\ lastResizeAt = -1
    /\ callsSinceResize = 0
    /\ lastCallAt = -1
    /\ burstLen = 0
    /\ burstTight = TRUE

\* Nothing hovered, the document still loading, the map not yet built.
InitPageState(vis, ma) ==
    /\ notified = FALSE
    /\ hovered = 0
    /\ cursor = [e \in Elems |-> ""]
    /\ transform = [e \in Elems |-> ""]
    /\ docState = "loading"
    /\ heroOpacity = ""
    /\ mapAvailable = ma
    /\ mapInitCount = 0
    /\ popupOpen = FALSE
    /\ visible = vis

NothingVisible == [e \in Elems |-> FALSE]

\* Navigation: every combination of present / missing cached elements, both
\* layouts, any initial menu classes.
InitNav ==
    /\ \E p \in [ElemNames -> BOOLEAN], l \in Layouts : InitDom(p, l, DefaultTags)
    /\ InitLife
    /\ InitNavState
    /\ InitAnimState(FALSE)
    /\ InitTimeState
    /\ InitPageState(NothingVisible, TRUE)
    /\ eventsLeft = 0

\* The page as designed, menu closed, at the top.
InitNavClosed ==
    /\ hamburgerActive = FALSE
    /\ navMenuActive = FALSE
    /\ navbarScrolled = FALSE
    /\ linkActive = [i \in LinkIds |-> FALSE]
    /\ scrollY = 0
    /\ scrollRequest = <<>>
    /\ runLen = 0
    /\ runStart = <<FALSE, FALSE>>

NextNav ==
    \/ EvaluateScript
    \/ HamburgerClick
    \/ \E i \in LinkIds : LinkClick(i)
    \/ LogoClick
    \/ \E y \in ScrollOffsets : Scroll(y)
    \/ CtaClick

SpecNav == InitNav /\ [][NextNav]_vars

\* Viewport animation and accessibility: every tagging of elements
\* 1..NumElems as menu card, gallery item or both, each in view or not at
\* load; the reduced-motion preference set or not at load; the CTA button
\* present or missing.
InitAnim ==
    /\ \E c \in BOOLEAN, tags \in [Elems -> TagChoices \cup {{}}] :
          /\ tags[0] = {}
          /\ \A e \in Elems \ {0} : tags[e] # {}
          /\ InitDom([AllPresent EXCEPT !.ctaButton = c], LayoutA, tags)
    /\ InitLife
    /\ InitNavClosed
    /\ \E rm \in BOOLEAN : InitAnimState(rm)
    /\ InitTimeState
    /\ \E vis \in [Elems -> BOOLEAN] : ~vis[0] /\ InitPageState(vis, TRUE)
    /\ eventsLeft = 0

NextAnim ==
    \/ EvaluateScript
    \/ FirstObservation
    \/ \E F \in (SUBSET (Elems \ {0})) \ {{}} : IntersectionChange(F)
    \/ PreferenceChange

SpecAnim == InitAnim /\ [][NextAnim]_vars

\* Debounced resize: the listener installed (CTA button present) or not.
InitResize ==
    /\ \E c \in BOOLEAN : InitDom([AllPresent EXCEPT !.ctaButton = c], LayoutA, DefaultTags)
    /\ InitLife
    /\ InitNavClosed
    /\ InitAnimState(FALSE)
    /\ InitTimeState
    /\ InitPageState(NothingVisible, TRUE)
    /\ eventsLeft = 0

NextResize ==
    \/ EvaluateScript
    \/ Resize
    \/ TimerFire
    \/ Tick

SpecResize == InitResize /\ [][NextResize]_vars

\* The event loop runs a due timeout eventually, and time does not stop.
FairSpecResize == SpecResize /\ WF_vars(TimerFire) /\ WF_vars(Tick)

\* The whole page: navigation interleaved with the document's own events and
\* with up to MaxBackground intersection, hover and resize events.  The CTA
\* button present or missing, the menu classes equal at
\* load, the reduced-motion preference set, Leaflet and the map container
\* there or not.
InitPage ==
    /\ \E c \in BOOLEAN : InitDom([AllPresent EXCEPT !.ctaButton = c], LayoutA, DefaultTags)
    /\ InitLife
    /\ hamburgerActive \in BOOLEAN
    /\ navMenuActive = hamburgerActive
    /\ navbarScrolled = FALSE
    /\ linkActive = [i \in LinkIds |-> FALSE]
    /\ scrollY = 0
    /\ scrollRequest = <<>>
    /\ runLen = 0
    /\ runStart = <<hamburgerActive, navMenuActive>>
    /\ InitAnimState(TRUE)
    /\ InitTimeState
    /\ \E ma \in BOOLEAN : InitPageState(NothingVisible, ma)
    /\ eventsLeft = MaxBackground

NextPage ==
    \/ EvaluateScript
    \/ FirstObservation
    \/ DomContentLoaded
    \/ Load
    \/ HamburgerClick
    \/ \E i \in LinkIds : LinkClick(i)
    \/ LogoClick
    \/ \E y \in ScrollOffsets : Scroll(y)
    \/ CtaClick
    \/ \E F \in (SUBSET (Elems \ {0})) \ {{}} : BackgroundIntersection(F)
    \/ \E e \in Elems \ {0} : MouseEnter(e)
    \/ \E e \in Elems \ {0} : MouseLeave(e)
    \/ BackgroundResize

SpecPage == InitPage /\ [][NextPage]_vars


\* ================================================================= claims
BothMenuElements == present.hamburger /\ present.navMenu

\* Sections whose activation point (offsetTop - navbar height - 100) is at or
\* above the current scroll offset.
Reached == {s \in DOMAIN sections : sections[s].top - navbarHeight - 100 <= scrollY}

LastReached == CHOOSE s \in Reached : \A t \in Reached : t <= s

AfterActiveLinkUpdate ==
    lastEvent[1] = "scroll" /\ "activeLink" \in installed /\ present.navbar

\* C1: right after a scroll event is handled, the navbar has 'scrolled' iff
\* the scroll offset is strictly greater than 50 (at exactly 50 it has not);
\* the class is a function of the offset alone, so handling the same offset
\* again changes nothing.
C1_ScrolledIffPast50 ==
    (lastEvent[1] = "scroll" /\ present.navbar) => (navbarScrolled <=> scrollY > 50)

C1_Witness ==
    lastEvent[1] = "scroll" /\ present.navbar /\ scrollY = 50 /\ ~navbarScrolled

\* C4: after a click on a link whose href is '#X' with an element of id X,
\* the scroll requested is that section's offsetTop minus the navbar's
\* offsetHeight, and neither the hamburger nor the nav menu is 'active'
\* (the page's navbar, hamburger and nav menu being present).
C4_LinkClickScrollsAndCloses ==
    \A i \in LinkIds, s \in DOMAIN sections :
        (/\ lastEvent = <<"link", i>>
         /\ present.navbar /\ BothMenuElements
         /\ navLinks[i] = <<"#">> \o sections[s].id)
        => /\ scrollRequest = <<sections[s].top - navbarHeight>>
           /\ ~hamburgerActive /\ ~navMenuActive

C4_Witness ==
    /\ lastEvent = <<"link", 1>>
    /\ present.navbar /\ BothMenuElements
    /\ sections = LayoutB.sections
    /\ scrollRequest = <<340>>
    /\ ~hamburgerActive /\ ~navMenuActive

\* C5: after a click on the logo the scroll requested is offset 0 and, the
\* hamburger and nav menu being present, neither has 'active', whatever the
\* scroll offset and the menu classes were.
C5_LogoClickScrollsTopAndCloses ==
    lastEvent[1] = "logo"
        => /\ scrollRequest = <<0>>
           /\ BothMenuElements => (~hamburgerActive /\ ~navMenuActive)

C5_Witness ==
    /\ lastEvent[1] = "logo" /\ BothMenuElements
    /\ scrollY = 300 /\ scrollRequest = <<0>>
    /\ ~hamburgerActive /\ ~navMenuActive

\* C6: after a scroll event, with S the last section in document order whose
\* activation point is reached, a navigation link has 'active' iff its href
\* is '#' followed by S's id.
C6_OnlyLastReachedSectionActive ==
    (AfterActiveLinkUpdate /\ Reached # {})
        => \A i \in LinkIds :
              linkActive[i] <=> (navLinks[i] = <<"#">> \o sections[LastReached].id)

C6_Witness ==
    /\ AfterActiveLinkUpdate
    /\ sections = LayoutB.sections
    /\ Cardinality(Reached) = 2
    /\ linkActive[2] /\ ~linkActive[1] /\ ~linkActive[3] /\ ~linkActive[4]

\* C7: after a scroll event for which no section's activation point is
\* reached, no navigation link has 'active', a link with href '#' included.
C7_NoSectionNoActiveLink ==
    (AfterActiveLinkUpdate /\ Reached = {}) => \A i \in LinkIds : ~linkActive[i]

\* C8: with hamburger and nav menu present, a run of hamburger clicks with
\* no other event in between leaves both 'active' classes as they were when
\* the run began if its length is even, and both inverted if it is odd.
C8_HamburgerFlipsBoth ==
    (phase = "evaluated" /\ BothMenuElements)
        => IF runLen % 2 = 0
           THEN <<hamburgerActive, navMenuActive>> = runStart
           ELSE <<hamburgerActive, navMenuActive>> = <<~runStart[1], ~runStart[2]>>

C8_Witness ==
    /\ phase = "evaluated" /\ BothMenuElements
    /\ runLen = 3 /\ runStart = <<FALSE, TRUE>>
    /\ hamburgerActive /\ ~navMenuActive


\* C2: over any sequence of intersection events, the entrance animation of
\* an element is triggered at most once; after it, the element going out of
\* view and coming back in triggers nothing.
C2_AnimatedAtMostOnce == \A e \in Elems : triggerCount[e] <= 1

C2_Witness ==
    \E e \in Elems : e \in ObservedTargets(elemTags) /\ reentered[e] /\ visible[e]
                     /\ triggerCount[e] = 1 /\ e \notin observed

\* Zero-based position of e among the menu cards, in document order.
MenuIndex(e) == Cardinality({d \in Elems : d < e /\ "menu-card" \in elemTags[d]})

\* C9: once a menu card's entrance animation has been triggered, its
\* animation delay is its zero-based index among the menu cards times 0.1 s
\* (delays are kept in tenths of a second).
C9_MenuCardDelayIsIndexTenths ==
    \A e \in Elems :
        ("menu-card" \in elemTags[e] /\ triggerCount[e] > 0)
            => style[e].animationDelay = <<MenuIndex(e)>>

\* C10: if the reduced-motion preference is set when the script is
\* evaluated, then when the evaluation has finished the document scroll
\* behaviour is 'auto' and every element's animation and transition are none.
C10_ReducedMotionDisablesAll ==
    (lastEvent[1] = "evaluate" /\ reducedAtEval /\ "reducedMotionGuard" \in installed)
        => /\ docScrollBehavior = "auto"
           /\ \A e \in Elems : /\ style[e].animation = <<"none">>
                               /\ style[e].transition = <<"none">>

\* C3: the state a debounced resize listener is in after the last event of
\* a burst (the resize events since the wrapped handler last ran).
C3_Inv ==
    ("resize" \in installed /\ burstLen > 0)
        => /\ Cardinality(timers) <= 1
           /\ \A t \in timers : t.due = lastResizeAt + 250
           /\ callsSinceResize = (IF timers = {} THEN 1 ELSE 0)
           /\ now < lastResizeAt + 250 => callsSinceResize = 0
           /\ callsSinceResize = 1 => lastCallAt >= lastResizeAt + 250

\* C3: every resize event cancels the pending call and schedules a new one
\* 250 after it, so a burst of resize events produces exactly one invocation
\* of the wrapped handler: none before 250 have passed since the burst's last
\* event, and the pending call is made eventually.
C3_DebounceOneCallPerBurst ==
    /\ []C3_Inv
    /\ (timers # {}) ~> (timers = {} /\ callsSinceResize = 1)

C3_Witness ==
    /\ "resize" \in installed
    /\ burstLen = 3 /\ burstTight
    /\ callsSinceResize = 1
    /\ lastCallAt >= lastResizeAt + 250

\* Link i's fragment is the id of no section.
NoTarget(i) == \A s \in DOMAIN sections : navLinks[i] # <<"#">> \o sections[s].id

\* C11: whichever of navbar, hamburger, nav menu and logo are missing, no
\* navigation handler (hamburger click, link click, logo click, the
\* active-link update of a scroll event) raises an error.
C11_NoNavigationHandlerRaises ==
    lastEvent[1] \in {"hamburger", "link", "logo", "scroll"}
        => lastErrors \cap {"linkSmoothScroll", "activeLink"} = {}

\* C11, amended: a hamburger or logo click never raises an error, and a
\* missing hamburger, nav menu or logo only leaves its feature out; but the
\* navbar is dereferenced unchecked, so with the navbar missing a click on a
\* link whose target exists raises an error (and requests no scroll), and so
\* does the active-link update of a scroll event when the page has sections.
\* With the navbar present no navigation handler raises an error.
C11_OnlyMissingNavbarRaises ==
    /\ lastEvent[1] \in {"hamburger", "logo"} => lastErrors = {}
    /\ \A i \in LinkIds :
          lastEvent = <<"link", i>>
              => /\ "linkSmoothScroll" \in lastErrors <=> (~present.navbar /\ ~NoTarget(i))
                 /\ "linkSmoothScroll" \in lastErrors => scrollRequest = <<>>
    /\ lastEvent[1] = "scroll"
          => ("activeLink" \in lastErrors
                 <=> ("activeLink" \in installed /\ ~present.navbar /\ sections # <<>>))

C11_Witness ==
    /\ lastEvent = <<"link", 1>>
    /\ ~present.navbar /\ ~present.logo /\ BothMenuElements
    /\ lastErrors = {"linkSmoothScroll"}
    /\ scrollRequest = <<>>
    /\ ~hamburgerActive /\ ~navMenuActive

\* C12: the map initializer runs at most once; it has run exactly when
\* DOMContentLoaded has been dispatched (its listener being registered), so
\* never before it and never again on load, scroll, click or resize; a run
\* that finished has left the marker's popup open.
C12_MapInitOnceAtDomContentLoaded ==
    /\ mapInitCount <= 1
    /\ mapInitCount = 1 <=> (docState # "loading" /\ "mapInit" \in installed)
    /\ (lastEvent[1] = "DOMContentLoaded" /\ mapInitCount = 1 /\ lastErrors = {}) => popupOpen

C12_Witness ==
    /\ docState = "complete"
    /\ lastEvent[1] = "resize"
    /\ scrollY = 300
    /\ mapInitCount = 1
    /\ popupOpen

\* C13: once its entrance animation has been triggered, a gallery item is
\* without 'fade-in-up' and has the inline animation 'fadeIn 0.8s ease-out
\* forwards', and any other observed element has 'fade-in-up'; an element
\* that is both menu card and gallery item has the gallery fade and its
\* stagger delay.
C13_EntranceEndState ==
    \A e \in Elems :
        triggerCount[e] > 0
            => IF "gallery-item" \in elemTags[e]
               THEN /\ ~classFadeInUp[e]
                    /\ style[e].animation = FadeIn
                    /\ "menu-card" \in elemTags[e] => style[e].animationDelay = <<MenuIndex(e)>>
               ELSE classFadeInUp[e]

Animated(e) == classFadeInUp[e] \/ style[e].animation = FadeIn

\* C14, in every state: a target is either watched and not animated, or
\* animated (once) and not watched.
C14_Inv ==
    "observer" \in installed
        => \A e \in ObservedTargets(elemTags) :
              \/ e \in observed /\ ~Animated(e) /\ triggerCount[e] = 0
              \/ e \notin observed /\ Animated(e) /\ triggerCount[e] = 1

\* C14, in every step: a target leaves the watched set in the step that
\* triggers its animation and in no other, does not come back; a watched
\* target that is out of view after the step (the entry the observer
\* delivers for it, if any, has isIntersecting false) stays watched, and
\* while it stays watched nothing of it changes.
C14_Step ==
    \A e \in ObservedTargets(elemTags) :
        /\ (e \in observed /\ e \notin observed') <=> triggerCount'[e] = triggerCount[e] + 1
        /\ (phase = "evaluated" /\ e \notin observed) => e \notin observed'
        /\ (e \in observed /\ ~visible'[e]) => e \in observed'
        /\ (e \in observed /\ e \in observed')
              => /\ classFadeInUp'[e] = classFadeInUp[e]
                 /\ style'[e] = style[e]
                 /\ triggerCount'[e] = triggerCount[e]

\* C14: once the observer is set up every menu card and gallery item is in
\* exactly one of two states, watched and not yet animated or animated and
\* no longer watched; it leaves the watched set once, in the callback that
\* triggers its animation, and never re-enters; an entry with isIntersecting
\* false changes neither the element nor the watched set.
C14_WatchedXorAnimated == []C14_Inv /\ [][C14_Step]_vars

C14_Witness ==
    /\ lastEvent[1] = "observation"
    /\ \E e, d \in ObservedTargets(elemTags) :
          /\ ~visible[e] /\ e \in observed /\ ~Animated(e)
          /\ visible[d] /\ d \notin observed /\ Animated(d)

\* C15: a click on a link whose fragment is the id of no element requests no
\* scroll, leaves the scroll offset where it was and raises no error, and the
\* hamburger and nav menu (when both exist) are without 'active' after it.
C15_UnknownFragmentNoScroll ==
    [][\A i \in LinkIds :
          (lastEvent' = <<"link", i>> /\ NoTarget(i))
              => /\ scrollRequest' = <<>>
                 /\ scrollY' = scrollY
                 /\ lastErrors' = {}
                 /\ BothMenuElements => (~hamburgerActive' /\ ~navMenuActive')]_vars

C15_Witness ==
    /\ lastEvent = <<"link", 4>>
    /\ BothMenuElements /\ ~present.navbar
    /\ scrollY = 300
    /\ scrollRequest = <<>> /\ lastErrors = {}
    /\ ~hamburgerActive /\ ~navMenuActive

\* C16: after a click on the CTA button (navbar present) the scroll
\* requested is the 'menu' section's offsetTop minus the navbar's
\* offsetHeight, the request a click on the link '#menu' makes in that state,
\* and the hamburger and nav menu classes are what they were before it.
C16_CtaScrollsLikeMenuLink ==
    (lastEvent[1] = "cta" /\ present.navbar)
        => /\ \A s \in DOMAIN sections :
                 sections[s].id = MenuId => scrollRequest = <<sections[s].top - navbarHeight>>
           /\ scrollRequest = SmoothScrollTo(sections, navLinks[1], present.navbar,
                                             navbarHeight).request
           /\ <<hamburgerActive, navMenuActive>> = runStart

C16_Witness ==
    /\ lastEvent[1] = "cta" /\ present.navbar /\ BothMenuElements
    /\ sections = LayoutB.sections
    /\ scrollRequest = <<340>>
    /\ hamburgerActive /\ navMenuActive

\* C17: the hamburger and the nav menu having started with the same 'active'
\* state, after any sequence of hamburger, link and logo clicks, scroll,
\* resize, hover and intersection events the hamburger has 'active' iff the
\* nav menu has it; a scroll event leaves both as they were.
C17_MenuClassesAgree ==
    /\ hamburgerActive <=> navMenuActive
    /\ lastEvent[1] = "scroll" => <<hamburgerActive, navMenuActive>> = runStart

C17_Witness ==
    /\ lastEvent[1] = "scroll"
    /\ hamburgerActive /\ navMenuActive
    /\ eventsLeft = 0
    /\ \E e \in Elems : triggerCount[e] = 1
    /\ \E e \in Elems : cursor[e] = "pointer"

\* C18: the reduced-motion preference having been set when the script was
\* evaluated, no element's inline animation is ever set to a value other
\* than none afterwards.
C18_ReducedMotionNeverUndone ==
    (reducedAtEval /\ "reducedMotionGuard" \in installed)
        => \A e \in Elems : style[e].animation \in {NoValue, <<"none">>}

\* What the features registered after line 121 would have changed.
LateFeaturesIdle ==
    /\ observed = {}
    /\ \A e \in Elems : /\ triggerCount[e] = 0 /\ ~classFadeInUp[e]
                        /\ style[e] = EmptyStyle
                        /\ cursor[e] = "" /\ transform[e] = ""
    /\ \A i \in LinkIds : ~linkActive[i]
    /\ heroOpacity = ""
    /\ docScrollBehavior = ""
    /\ timers = {}
    /\ mapInitCount = 0 /\ ~popupOpen

\* What the features registered before line 121 do.
EarlyFeaturesWork ==
    /\ lastEvent[1] = "hamburger"
          => (/\ hamburgerActive <=> navMenuActive
              /\ hamburgerActive <=> (IF runLen % 2 = 1 THEN ~runStart[1] ELSE runStart[1]))
    /\ lastEvent[1] = "logo"
          => (scrollRequest = <<0>> /\ ~hamburgerActive /\ ~navMenuActive)
    /\ lastEvent[1] = "scroll" => (navbarScrolled <=> scrollY > 50)
    /\ \A i \in LinkIds, s \in DOMAIN sections :
          (lastEvent = <<"link", i>> /\ navLinks[i] = <<"#">> \o sections[s].id)
              => /\ scrollRequest = <<sections[s].top - navbarHeight>>
                 /\ ~hamburgerActive /\ ~navMenuActive

\* C19: with the CTA button missing the evaluation ends with an error at the
\* CTA listener registration; the viewport observer, card and gallery hover,
\* active-link update, hero load handler, reduced-motion guard, debounced
\* resize and map initializer are never installed and never act, while the
\* hamburger toggle, logo click, navbar scrolled state and link smooth
\* scroll are installed and work.
C19_MissingCtaStopsLaterFeatures ==
    (phase = "evaluated" /\ ~present.ctaButton)
        => /\ lastEvent[1] = "evaluate" => lastErrors = {"evaluate"}
           /\ installed = {"hamburgerToggle", "linkCloseMenu", "logoClick", "navbarScroll",
                           "linkSmoothScroll"}
           /\ LateFeaturesIdle
           /\ EarlyFeaturesWork

C19_Witness ==
    /\ phase = "evaluated" /\ ~present.ctaButton
    /\ docState = "complete"
    /\ eventsLeft = 0
    /\ \E e \in Elems : visible[e] /\ hovered = e
    /\ lastEvent[1] = "scroll" /\ navbarScrolled
    /\ hamburgerActive /\ navMenuActive

====
